---- MODULE Spec2Model ----
(***************************************************************************)
(* Model of src/client/pages/AIAssistant.tsx: the chat page of the BPS     *)
(* Kota Medan data assistant.  The file holds two versions of the page     *)
(* (lines 1-419 and 420-1041).  The second one carries its own copies of   *)
(* the data functions the first one imports, so the engine below           *)
(* (classifier, matcher, composer) is the one of lines 447-596, and the    *)
(* composer of the first version (lines 75-105) is modelled next to it.    *)
(*                                                                         *)
(* Strings are sequences of UTF-16 code units, one element per unit: a     *)
(* printable ASCII unit is written as itself and any other unit as         *)
(* "U+hhhh".                                                               *)
(***************************************************************************)
EXTENDS Integers, Sequences, FiniteSets, TLC

(***************************************************************************)
(* Bounds of the model.                                                    *)
(***************************************************************************)
\* number of vocabulary words an engine input is made of
MaxWords == 2
\* number of leading code units of a composed string that a reveal shows
MaxChars == 2
\* number of queries the page accepts in one run
MaxSubmits == 2
\* number of times New Chat is pressed in one run
MaxNewChats == 1
\* number of welcome-screen suggestions that are clicked
MaxSuggestions == 1

(***************************************************************************)
(* String primitives of the language.                                      *)
(***************************************************************************)
Min(a, b) == IF a < b THEN a ELSE b

UpperCase == <<"A","B","C","D","E","F","G","H","I","J","K","L","M",
               "N","O","P","Q","R","S","T","U","V","W","X","Y","Z">>

LowerCase == <<"a","b","c","d","e","f","g","h","i","j","k","l","m",
               "n","o","p","q","r","s","t","u","v","w","x","y","z">>

toLowerCaseUnit(c) ==
  IF \E k \in 1..26 : UpperCase[k] = c
    THEN LowerCase[CHOOSE k \in 1..26 : UpperCase[k] = c]
    ELSE c

toLowerCase(s) == [k \in 1..Len(s) |-> toLowerCaseUnit(s[k])]

includes(s, sub) ==
  \E k \in 0..(Len(s) - Len(sub)) : SubSeq(s, k + 1, k + Len(sub)) = sub

\* s.substring(0, n) and arr.slice(0, n)
substring(s, n) == SubSeq(s, 1, Min(n, Len(s)))

slice(s, n) == SubSeq(s, 1, Min(n, Len(s)))

WhiteSpace == {" ", "\n", "\t"}

RECURSIVE trimStart(_)
trimStart(s) ==
  IF s # <<>> /\ Head(s) \in WhiteSpace THEN trimStart(Tail(s)) ELSE s

RECURSIVE trimEnd(_)
trimEnd(s) ==
  IF s # <<>> /\ s[Len(s)] \in WhiteSpace
    THEN trimEnd(SubSeq(s, 1, Len(s) - 1))
    ELSE s

trim(s) == trimEnd(trimStart(s))

\* s.split(sep) for a separator of one unit: the pieces between separators,
\* empty pieces included
split(s, sep) ==
  LET seps == { k \in 1..Len(s) : s[k] = sep }
      n == Cardinality(seps)
      \* the position of the j-th separator; 0 and Len(s) + 1 bracket the text
      at(j) == IF j = 0 THEN 0
               ELSE IF j = n + 1 THEN Len(s) + 1
               ELSE CHOOSE k \in seps : Cardinality({ x \in seps : x < k }) = j - 1
  IN  [j \in 1..(n + 1) |-> SubSeq(s, at(j - 1) + 1, at(j) - 1)]

Digits == <<"0","1","2","3","4","5","6","7","8","9">>

\* `${n}` for a natural number n
RECURSIVE numberToString(_)
numberToString(n) ==
  IF n < 10 THEN <<Digits[n + 1]>>
  ELSE numberToString(n \div 10) \o <<Digits[(n % 10) + 1]>>

(***************************************************************************)
(* String literals of the source.                                          *)
(***************************************************************************)
\* line 79 (112 UTF-16 units)
GreetingReply1 ==
  <<"H","a","l","o"," ","j","u","g","a","!"," ","U+D83D","U+DE0A"," ","S","e","n","a","n","g",
    " ","b","e","r","t","e","m","u"," ","d","e","n","g","a","n"," ","A","n","d","a","!"," ","S",
    "a","y","a"," ","s","i","a","p"," ","m","e","m","b","a","n","t","u"," ","A","n","d","a"," ",
    "m","e","n","e","m","u","k","a","n"," ","d","a","t","a"," ","s","t","a","t","i","s","t","i",
    "k"," ","r","e","s","m","i"," ","B","P","S"," ","K","o","t","a"," ","M","e","d","a","n",
    ".">>
\* line 81 (82 UTF-16 units)
ThanksReply1 ==
  <<"S","a","m","a","-","s","a","m","a","!"," ","U+D83D","U+DE0A"," ","S","a","y","a"," ","s",
    "e","n","a","n","g"," ","b","i","s","a"," ","m","e","m","b","a","n","t","u","."," ","S","i",
    "l","a","k","a","n"," ","t","a","n","y","a","k","a","n"," ","l","a","g","i"," ","j","i","k",
    "a"," ","a","d","a"," ","y","a","n","g"," ","l","a","i","n","!">>
\* line 83 (158 UTF-16 units)
IdentityReply1 ==
  <<"S","a","y","a"," ","a","d","a","l","a","h"," ","A","I"," ","D","a","t","a"," ","A","s","s",
    "i","s","t","a","n","t"," ","k","h","u","s","u","s"," ","u","n","t","u","k"," ","B","P","S",
    " ","K","o","t","a"," ","M","e","d","a","n","!"," ","U+D83E","U+DD16"," ","S","a","y","a",
    " ","d","i","c","i","p","t","a","k","a","n"," ","u","n","t","u","k"," ","m","e","m","b","a",
    "n","t","u"," ","A","n","d","a"," ","m","e","n","g","a","k","s","e","s"," ","d","a","n"," ",
    "m","e","n","c","a","r","i"," ","d","a","t","a"," ","s","t","a","t","i","s","t","i","k"," ",
    "r","e","s","m","i"," ","B","P","S"," ","d","e","n","g","a","n"," ","m","u","d","a","h",
    ".">>
\* line 86 (34 UTF-16 units)
ListHeadA1 ==
  <<"T","e","n","t","u","!"," ","U+D83D","U+DCCB"," ","B","P","S"," ","K","o","t","a"," ","M",
    "e","d","a","n"," ","m","e","m","i","l","i","k","i"," ">>
\* line 86 (28 UTF-16 units)
ListHeadB1 ==
  <<" ","k","a","t","e","g","o","r","i"," ","u","t","a","m","a"," ","s","t","a","t","i","s","t",
    "i","k",":","\n","\n">>
\* line 102 (116 UTF-16 units)
NoDataReply1 ==
  <<"M","a","a","f",","," ","s","a","y","a"," ","t","i","d","a","k"," ","m","e","n","e","m","u",
    "k","a","n"," ","d","a","t","a"," ","y","a","n","g"," ","r","e","l","e","v","a","n"," ","d",
    "e","n","g","a","n"," ","p","e","r","t","a","n","y","a","a","n"," ","A","n","d","a","."," ",
    "U+D83E","U+DD14"," ","C","o","b","a"," ","g","u","n","a","k","a","n"," ","k","a","t","a",
    " ","k","u","n","c","i"," ","y","a","n","g"," ","l","e","b","i","h"," ","s","p","e","s","i",
    "f","i","k",".">>
\* line 100 (71 UTF-16 units)
CallToAction1 ==
  <<"K","l","i","k"," ","l","i","n","k"," ","d","i"," ","b","a","w","a","h"," ","u","n","t","u",
    "k"," ","m","e","l","i","h","a","t"," ","d","a","t","a"," ","l","e","n","g","k","a","p"," ",
    "d","a","r","i"," ","p","o","r","t","a","l"," ","r","e","s","m","i"," ","B","P","S","."," ",
    "U+D83D","U+DD17">>
\* line 168 (103 UTF-16 units)
GreetingMessage ==
  <<"H","a","l","o","!"," ","U+D83D","U+DC4B"," ","S","a","y","a"," ","A","I"," ","D","a","t",
    "a"," ","A","s","s","i","s","t","a","n","t"," ","B","P","S"," ","K","o","t","a"," ","M","e",
    "d","a","n","."," ","S","a","y","a"," ","s","i","a","p"," ","m","e","m","b","a","n","t","u",
    " ","A","n","d","a"," ","m","e","n","e","m","u","k","a","n"," ","d","a","t","a"," ","s","t",
    "a","t","i","s","t","i","k"," ","r","e","s","m","i",".">>
\* line 160 (21 UTF-16 units)
StoppedMarker ==
  <<"\n","\n","[","R","e","s","p","o","n"," ","d","i","h","e","n","t","i","k","a","n","]">>
\* line 568 (114 UTF-16 units)
GreetingReply ==
  <<"H","a","l","o"," ","j","u","g","a","!"," ","U+00F0","U+0178","U+2018","U+2039"," ","S","e",
    "n","a","n","g"," ","b","e","r","t","e","m","u"," ","d","e","n","g","a","n"," ","A","n","d",
    "a","!"," ","S","a","y","a"," ","s","i","a","p"," ","m","e","m","b","a","n","t","u"," ","A",
    "n","d","a"," ","m","e","n","e","m","u","k","a","n"," ","d","a","t","a"," ","s","t","a","t",
    "i","s","t","i","k"," ","r","e","s","m","i"," ","B","P","S"," ","K","o","t","a"," ","M","e",
    "d","a","n",".">>
\* line 570 (84 UTF-16 units)
ThanksReply ==
  <<"S","a","m","a","-","s","a","m","a","!"," ","U+00F0","U+0178","U+02DC","U+0160"," ","S","a",
    "y","a"," ","s","e","n","a","n","g"," ","b","i","s","a"," ","m","e","m","b","a","n","t","u",
    "."," ","S","i","l","a","k","a","n"," ","t","a","n","y","a","k","a","n"," ","l","a","g","i",
    " ","j","i","k","a"," ","a","d","a"," ","y","a","n","g"," ","l","a","i","n","!">>
\* line 572 (160 UTF-16 units)
IdentityReply ==
  <<"S","a","y","a"," ","a","d","a","l","a","h"," ","A","I"," ","D","a","t","a"," ","A","s","s",
    "i","s","t","a","n","t"," ","k","h","u","s","u","s"," ","u","n","t","u","k"," ","B","P","S",
    " ","K","o","t","a"," ","M","e","d","a","n","!"," ","U+00F0","U+0178","U+00A4","U+2013"," ",
    "S","a","y","a"," ","d","i","c","i","p","t","a","k","a","n"," ","u","n","t","u","k"," ","m",
    "e","m","b","a","n","t","u"," ","A","n","d","a"," ","m","e","n","g","a","k","s","e","s"," ",
    "d","a","n"," ","m","e","n","c","a","r","i"," ","d","a","t","a"," ","s","t","a","t","i","s",
    "t","i","k"," ","r","e","s","m","i"," ","B","P","S"," ","d","e","n","g","a","n"," ","m","u",
    "d","a","h",".">>
\* line 575 (36 UTF-16 units)
ListHeadA ==
  <<"T","e","n","t","u","!"," ","U+00F0","U+0178","U+201C","U+0160"," ","B","P","S"," ","K","o",
    "t","a"," ","M","e","d","a","n"," ","m","e","m","i","l","i","k","i"," ">>
\* line 575 (28 UTF-16 units)
ListHeadB ==
  <<" ","k","a","t","e","g","o","r","i"," ","u","t","a","m","a"," ","s","t","a","t","i","s","t",
    "i","k",":","\n","\n">>
\* line 584 (46 UTF-16 units)
FoundHead ==
  <<"B","a","g","u","s","!"," ","S","a","y","a"," ","m","e","n","e","m","u","k","a","n"," ","d",
    "a","t","a","s","e","t"," ","y","a","n","g"," ","r","e","l","e","v","a","n",":"," ","*",
    "*">>
\* line 584 (4 UTF-16 units)
FoundTail ==
  <<"*","*","\n","\n">>
\* line 585 (2 UTF-16 units)
DescTail ==
  <<"\n","\n">>
\* line 588 (57 UTF-16 units)
RelatedPhrase ==
  <<"B","e","r","i","k","u","t"," ","j","u","g","a"," ","b","e","b","e","r","a","p","a"," ","d",
    "a","t","a"," ","t","e","r","k","a","i","t"," ","y","a","n","g"," ","m","u","n","g","k","i",
    "n"," ","b","e","r","g","u","n","a",":","\n">>
\* line 590 (73 UTF-16 units)
CallToAction ==
  <<"K","l","i","k"," ","l","i","n","k"," ","d","i"," ","b","a","w","a","h"," ","u","n","t","u",
    "k"," ","m","e","l","i","h","a","t"," ","d","a","t","a"," ","l","e","n","g","k","a","p"," ",
    "d","a","r","i"," ","p","o","r","t","a","l"," ","r","e","s","m","i"," ","B","P","S","."," ",
    "U+00F0","U+0178","U+201D","U+2014">>
\* line 592 (183 UTF-16 units)
NoDataReply ==
  <<"M","a","a","f",","," ","s","a","y","a"," ","t","i","d","a","k"," ","m","e","n","e","m","u",
    "k","a","n"," ","d","a","t","a"," ","y","a","n","g"," ","r","e","l","e","v","a","n"," ","d",
    "e","n","g","a","n"," ","p","e","r","t","a","n","y","a","a","n"," ","A","n","d","a","."," ",
    "U+00F0","U+0178","U+2122"," ","C","o","b","a"," ","g","u","n","a","k","a","n"," ","k","a",
    "t","a"," ","k","u","n","c","i"," ","y","a","n","g"," ","l","e","b","i","h"," ","s","p","e",
    "s","i","f","i","k"," ","s","e","p","e","r","t","i"," ","\"","p","o","p","u","l","a","s",
    "i","\"",","," ","\"","e","k","o","n","o","m","i","\"",","," ","\"","p","e","n","d","i","d",
    "i","k","a","n","\"",","," ","a","t","a","u"," ","\"","i","n","f","r","a","s","t","r","u",
    "k","t","u","r","\"",".">>
\* line 918 (27 UTF-16 units)
PortalTitle ==
  <<"P","o","r","t","a","l"," ","R","e","s","m","i"," ","B","P","S"," ","K","o","t","a"," ","M",
    "e","d","a","n">>
\* line 919 (30 UTF-16 units)
PortalUrl ==
  <<"h","t","t","p","s",":","/","/","m","e","d","a","n","k","o","t","a",".","b","p","s",".","g",
    "o",".","i","d","/","i","d">>
\* lines 483-505
mockData == <<
  [subject_id |->
  <<"p","o","p","_","0","0","1">>,
   title |->
  <<"D","a","t","a"," ","P","e","n","d","u","d","u","k"," ","K","o","t","a"," ","M","e","d","a",
    "n"," ","2","0","2","4">>,
   description |->
  <<"S","t","a","t","i","s","t","i","k"," ","l","e","n","g","k","a","p"," ","p","e","n","d","u",
    "d","u","k"," ","K","o","t","a"," ","M","e","d","a","n"," ","b","e","r","d","a","s","a","r",
    "k","a","n"," ","k","e","l","o","m","p","o","k"," ","u","s","i","a",","," ","j","e","n","i",
    "s"," ","k","e","l","a","m","i","n",","," ","d","a","n"," ","s","e","b","a","r","a","n"," ",
    "g","e","o","g","r","a","f","i","s">>,
   url |->
  <<"h","t","t","p","s",":","/","/","m","e","d","a","n","k","o","t","a",".","b","p","s",".","g",
    "o",".","i","d","/","i","d","/","s","t","a","t","i","s","t","i","c","s","-","t","a","b","l",
    "e","/","2","/","p","o","p","_","0","0","1">>,
   category |->
  <<"K","e","p","e","n","d","u","d","u","k","a","n">>],
  [subject_id |->
  <<"e","c","o","n","_","0","0","1">>,
   title |->
  <<"P","D","R","B"," ","K","o","t","a"," ","M","e","d","a","n"," ","A","t","a","s"," ","D","a",
    "s","a","r"," ","H","a","r","g","a"," ","K","o","n","s","t","a","n">>,
   description |->
  <<"P","r","o","d","u","k"," ","D","o","m","e","s","t","i","k"," ","R","e","g","i","o","n","a",
    "l"," ","B","r","u","t","o"," ","K","o","t","a"," ","M","e","d","a","n"," ","m","e","n","u",
    "r","u","t"," ","l","a","p","a","n","g","a","n"," ","u","s","a","h","a"," ","a","t","a","s",
    " ","d","a","s","a","r"," ","h","a","r","g","a"," ","k","o","n","s","t","a","n">>,
   url |->
  <<"h","t","t","p","s",":","/","/","m","e","d","a","n","k","o","t","a",".","b","p","s",".","g",
    "o",".","i","d","/","i","d","/","s","t","a","t","i","s","t","i","c","s","-","t","a","b","l",
    "e","/","2","/","e","c","o","n","_","0","0","1">>,
   category |->
  <<"E","k","o","n","o","m","i">>],
  [subject_id |->
  <<"e","d","u","_","0","0","1">>,
   title |->
  <<"S","t","a","t","i","s","t","i","k"," ","P","e","n","d","i","d","i","k","a","n"," ","K","o",
    "t","a"," ","M","e","d","a","n">>,
   description |->
  <<"D","a","t","a"," ","l","e","n","g","k","a","p"," ","t","e","n","t","a","n","g"," ","j","u",
    "m","l","a","h"," ","s","e","k","o","l","a","h",","," ","s","i","s","w","a",","," ","d","a",
    "n"," ","t","e","n","a","g","a"," ","p","e","n","d","i","d","i","k"," ","d","i"," ","K","o",
    "t","a"," ","M","e","d","a","n">>,
   url |->
  <<"h","t","t","p","s",":","/","/","m","e","d","a","n","k","o","t","a",".","b","p","s",".","g",
    "o",".","i","d","/","i","d","/","s","t","a","t","i","s","t","i","c","s","-","t","a","b","l",
    "e","/","2","/","e","d","u","_","0","0","1">>,
   category |->
  <<"P","e","n","d","i","d","i","k","a","n">>]
  >>
\* lines 471-480
getCategories == <<
  <<"K","e","p","e","n","d","u","d","u","k","a","n"," ","d","a","n"," ","D","e","m","o","g","r",
    "a","f","i">>,
  <<"E","k","o","n","o","m","i"," ","d","a","n"," ","P","e","r","d","a","g","a","n","g","a",
    "n">>,
  <<"P","e","n","d","i","d","i","k","a","n"," ","d","a","n"," ","K","e","s","e","h","a","t","a",
    "n">>,
  <<"I","n","f","r","a","s","t","r","u","k","t","u","r"," ","d","a","n"," ","P","e","m","b","a",
    "n","g","u","n","a","n">>,
  <<"S","o","s","i","a","l"," ","d","a","n"," ","B","u","d","a","y","a">>,
  <<"P","e","r","t","a","n","i","a","n"," ","d","a","n"," ","P","e","r","i","k","a","n","a",
    "n">>,
  <<"I","n","d","u","s","t","r","i"," ","d","a","n"," ","E","n","e","r","g","i">>,
  <<"T","r","a","n","s","p","o","r","t","a","s","i"," ","d","a","n"," ","K","o","m","u","n","i",
    "k","a","s","i">>
  >>
K_halo == <<"h","a","l","o">>
K_hai == <<"h","a","i">>
K_hello == <<"h","e","l","l","o">>
K_terima_kasih == <<"t","e","r","i","m","a"," ","k","a","s","i","h">>
K_thanks == <<"t","h","a","n","k","s">>
K_siapa == <<"s","i","a","p","a">>
K_who == <<"w","h","o">>
K_kamu_siapa == <<"k","a","m","u"," ","s","i","a","p","a">>
K_anda_siapa == <<"a","n","d","a"," ","s","i","a","p","a">>
K_list == <<"l","i","s","t">>
K_daftar == <<"d","a","f","t","a","r">>
K_kategori == <<"k","a","t","e","g","o","r","i">>
K_populasi == <<"p","o","p","u","l","a","s","i">>
K_ekonomi == <<"e","k","o","n","o","m","i">>
K_pendidikan == <<"p","e","n","d","i","d","i","k","a","n">>
K_pop == <<"p","o","p">>
K_econ == <<"e","c","o","n">>
K_edu == <<"e","d","u">>
\* lines 448-457
baseGeneralSuggestions == <<
  <<"D","a","t","a"," ","p","o","p","u","l","a","s","i"," ","K","o","t","a"," ","M","e","d","a",
    "n"," ","t","e","r","b","a","r","u">>,
  <<"S","t","a","t","i","s","t","i","k"," ","e","k","o","n","o","m","i"," ","d","a","n"," ","p",
    "e","r","d","a","g","a","n","g","a","n">>,
  <<"D","a","t","a"," ","p","e","n","d","i","d","i","k","a","n"," ","d","a","n"," ","k","e","s",
    "e","h","a","t","a","n">>,
  <<"I","n","f","o","r","m","a","s","i"," ","i","n","f","r","a","s","t","r","u","k","t","u","r",
    " ","k","o","t","a">>,
  <<"T","i","n","g","k","a","t"," ","p","e","n","g","a","n","g","g","u","r","a","n"," ","d","i",
    " ","M","e","d","a","n">>,
  <<"D","a","t","a"," ","k","e","m","i","s","k","i","n","a","n"," ","d","a","n"," ","k","e","s",
    "e","j","a","h","t","e","r","a","a","n">>,
  <<"S","t","a","t","i","s","t","i","k"," ","i","n","d","u","s","t","r","i"," ","d","a","n"," ",
    "U","M","K","M">>,
  <<"D","a","t","a"," ","t","r","a","n","s","p","o","r","t","a","s","i"," ","d","a","n"," ","m",
    "o","b","i","l","i","t","a","s">>
  >>
\* the example inputs of the specification
T_populasi_kota_medan ==
  <<"p","o","p","u","l","a","s","i"," ","k","o","t","a"," ","m","e","d","a","n">>
T_xyzxyz ==
  <<"x","y","z","x","y","z"," ","n","o","t"," ","a"," ","r","e","a","l"," ","k","e","y","w","o",
    "r","d">>
T_siapa_kamu ==
  <<"s","i","a","p","a"," ","k","a","m","u">>
T_data_pendidikan ==
  <<"d","a","t","a"," ","p","e","n","d","i","d","i","k","a","n">>
ExampleTexts == {T_populasi_kota_medan, T_xyzxyz, T_siapa_kamu, T_data_pendidikan}

(***************************************************************************)
(* The engine: classifier, matcher, composer.                              *)
(***************************************************************************)
\* detectSpecificKeywords with the hits of each clause collected one clause
\* after the other
detectSpecificKeywordsPerClause(question) ==
  LET keywords == toLowerCase(question)
      byCategory(item) == includes(keywords, toLowerCase(item.category))
      byKeyword(item) ==
        \/ includes(keywords, K_populasi) /\ includes(item.subject_id, K_pop)
        \/ includes(keywords, K_ekonomi) /\ includes(item.subject_id, K_econ)
        \/ includes(keywords, K_pendidikan) /\ includes(item.subject_id, K_edu)
  IN  SelectSeq(mockData, byCategory) \o SelectSeq(mockData, byKeyword)

\* detectSpecificKeywords without the lower-casing of the question
detectSpecificKeywordsCaseSensitive(question) ==
  LET keywords == question
      hit(item) ==
        \/ includes(keywords, toLowerCase(item.category))
        \/ includes(keywords, K_populasi) /\ includes(item.subject_id, K_pop)
        \/ includes(keywords, K_ekonomi) /\ includes(item.subject_id, K_econ)
        \/ includes(keywords, K_pendidikan) /\ includes(item.subject_id, K_edu)
  IN  SelectSeq(mockData, hit)

detectSpecificKeywords(question) ==
  LET keywords == toLowerCase(question)
      hit(item) ==
        \/ includes(keywords, toLowerCase(item.category))
        \/ includes(keywords, K_populasi) /\ includes(item.subject_id, K_pop)
        \/ includes(keywords, K_ekonomi) /\ includes(item.subject_id, K_econ)
        \/ includes(keywords, K_pendidikan) /\ includes(item.subject_id, K_edu)
  IN  SelectSeq(mockData, hit)

\* searchBPSData as a search of its own, in the titles
searchBPSDataInTitles(query) ==
  LET hit(item) == includes(toLowerCase(item.title), toLowerCase(query))
  IN  SelectSeq(mockData, hit)

searchBPSData(query) == detectSpecificKeywords(query)

\* detectQuestionType without the lower-casing of the question
detectQuestionTypeCaseSensitive(question) ==
  LET lower == question IN
  IF includes(lower, K_halo) \/ includes(lower, K_hai) \/ includes(lower, K_hello)
    THEN "greeting"
  ELSE IF includes(lower, K_terima_kasih) \/ includes(lower, K_thanks)
    THEN "thanks"
  ELSE IF \/ includes(lower, K_siapa) \/ includes(lower, K_who)
          \/ includes(lower, K_kamu_siapa) \/ includes(lower, K_anda_siapa)
    THEN "identity"
  ELSE IF includes(lower, K_list) \/ includes(lower, K_daftar) \/ includes(lower, K_kategori)
    THEN "list"
  ELSE "information"

detectQuestionType(question) ==
  LET lower == toLowerCase(question) IN
  IF includes(lower, K_halo) \/ includes(lower, K_hai) \/ includes(lower, K_hello)
    THEN "greeting"
  ELSE IF includes(lower, K_terima_kasih) \/ includes(lower, K_thanks)
    THEN "thanks"
  ELSE IF \/ includes(lower, K_siapa) \/ includes(lower, K_who)
          \/ includes(lower, K_kamu_siapa) \/ includes(lower, K_anda_siapa)
    THEN "identity"
  ELSE IF includes(lower, K_list) \/ includes(lower, K_daftar) \/ includes(lower, K_kategori)
    THEN "list"
  ELSE "information"

\* the for loop over words of findRelevantData
RECURSIVE partialResultsOf(_)
partialResultsOf(words) ==
  IF words = <<>> THEN <<>>
  ELSE LET word == Head(words)
           wordResults == detectSpecificKeywords(word)
       IN  (IF Len(wordResults) > 0
              THEN wordResults
              ELSE slice(searchBPSData(word), 2))
           \o partialResultsOf(Tail(words))

\* self.findIndex(t => t.subject_id === id), 1-based
findIndex(self, id) ==
  CHOOSE k \in 1..Len(self) :
    /\ self[k].subject_id = id
    /\ \A j \in 1..(k - 1) : self[j].subject_id # id

\* the filter that removes duplicates in findRelevantData
RECURSIVE uniqueFrom(_, _)
uniqueFrom(self, index) ==
  IF index > Len(self) THEN <<>>
  ELSE (IF index = findIndex(self, self[index].subject_id)
          THEN <<self[index]>>
          ELSE <<>>)
       \o uniqueFrom(self, index + 1)

\* the part of findRelevantData that tries the words one by one
perWordPhase(question) ==
  LET isLong(word) == Len(word) > 2
      words == SelectSeq(split(toLowerCase(question), " "), isLong)
      partialResults == partialResultsOf(words)
      uniqueResults == uniqueFrom(partialResults, 1)
  IN  slice(uniqueResults, 3)

\* findRelevantData trying the words one by one before the whole text
findRelevantDataPerWordFirst(question) ==
  LET wordResults == perWordPhase(question) IN
  IF Len(wordResults) > 0 THEN wordResults
  ELSE LET keywordResults == detectSpecificKeywords(question) IN
  IF Len(keywordResults) > 0 THEN slice(keywordResults, 5)
  ELSE slice(searchBPSData(question), 5)

findRelevantData(question) ==
  LET keywordResults == detectSpecificKeywords(question) IN
  IF Len(keywordResults) > 0 THEN slice(keywordResults, 5)
  ELSE LET results == searchBPSData(question) IN
  IF Len(results) > 0 THEN slice(results, 5)
  ELSE perWordPhase(question)

\* the forEach loop numbering its lines from 0
RECURSIVE listLinesFromZero(_, _)
listLinesFromZero(categories, index) ==
  IF index >= Len(categories) THEN <<>>
  ELSE numberToString(index) \o <<".", " ">> \o categories[index + 1] \o <<"\n">>
       \o listLinesFromZero(categories, index + 1)

\* categories.forEach((category, index) => response += ...)
RECURSIVE listLines(_, _)
listLines(categories, index) ==
  IF index >= Len(categories) THEN <<>>
  ELSE numberToString(index + 1) \o <<".", " ">> \o categories[index + 1] \o <<"\n">>
       \o listLines(categories, index + 1)

\* the composer adding the related-data phrase for a single match too
informationResponseAlwaysRelated(relevantData, callToAction, noData) ==
  IF Len(relevantData) > 0
    THEN LET primaryResult == relevantData[1] IN
         FoundHead \o primaryResult.title \o FoundTail
         \o primaryResult.description \o DescTail
         \o (IF Len(relevantData) > 0 THEN RelatedPhrase ELSE <<>>)
         \o callToAction
    ELSE noData

\* the part of generatePersonalizedResponse after the switch
informationResponse(relevantData, callToAction, noData) ==
  IF Len(relevantData) > 0
    THEN LET primaryResult == relevantData[1] IN
         FoundHead \o primaryResult.title \o FoundTail
         \o primaryResult.description \o DescTail
         \o (IF Len(relevantData) > 1 THEN RelatedPhrase ELSE <<>>)
         \o callToAction
    ELSE noData

\* second version of the page
generatePersonalizedResponse(question, questionType, relevantData) ==
  CASE questionType = "greeting" -> GreetingReply
    [] questionType = "thanks" -> ThanksReply
    [] questionType = "identity" -> IdentityReply
    [] questionType = "list" ->
         ListHeadA \o numberToString(Len(getCategories)) \o ListHeadB
         \o listLines(getCategories, 0)
    [] OTHER -> informationResponse(relevantData, CallToAction, NoDataReply)

\* first version of the page
generatePersonalizedResponse1(question, questionType, relevantData) ==
  CASE questionType = "greeting" -> GreetingReply1
    [] questionType = "thanks" -> ThanksReply1
    [] questionType = "identity" -> IdentityReply1
    [] questionType = "list" ->
         ListHeadA1 \o numberToString(Len(getCategories)) \o ListHeadB1
         \o listLines(getCategories, 0)
    [] OTHER -> informationResponse(relevantData, CallToAction1, NoDataReply1)

\* an absent optional field, and a present one
undefined == [defined |-> FALSE, value |-> <<>>]

Defined(v) == [defined |-> TRUE, value |-> v]

\* relevantData.map(item => ({title: item.title, url: item.url}))
toSources(relevantData) ==
  [k \in 1..Len(relevantData) |->
     [title |-> relevantData[k].title, url |-> relevantData[k].url]]

\* the `sources:` expression with the test of the intent turned around
sourcesOfPortalForCanned(questionType, relevantData) ==
  IF Len(relevantData) > 0 THEN Defined(toSources(relevantData))
  ELSE IF \/ questionType = "greeting" \/ questionType = "thanks"
          \/ questionType = "identity" \/ questionType = "list"
    THEN Defined(<<[title |-> PortalTitle, url |-> PortalUrl]>>)
  ELSE undefined

\* the `sources:` expression of handleSubmit
sourcesOf(questionType, relevantData) ==
  IF Len(relevantData) > 0 THEN Defined(toSources(relevantData))
  ELSE IF /\ questionType # "greeting" /\ questionType # "thanks"
          /\ questionType # "identity" /\ questionType # "list"
    THEN Defined(<<[title |-> PortalTitle, url |-> PortalUrl]>>)
  ELSE undefined

\* the `relatedData:` expression of handleSubmit
relatedDataOf(relevantData) ==
  IF Len(relevantData) > 0 THEN Defined(relevantData) ELSE undefined

\* getSuggestions of the second version
getSuggestions(text) ==
  IF Len(text) < 2 THEN slice(baseGeneralSuggestions, 6)
  ELSE LET inputLower == toLowerCase(text)
           matches(suggestion) == includes(toLowerCase(suggestion), inputLower)
           matchingSuggestions == SelectSeq(baseGeneralSuggestions, matches)
       IN  IF Len(matchingSuggestions) > 0
             THEN matchingSuggestions
             ELSE slice(baseGeneralSuggestions, 4)

(***************************************************************************)
(* Inputs of the model.                                                    *)
(***************************************************************************)
\* the words engine inputs are made of
Vocabulary ==
  { K_halo, <<"H","A","L","O">>, K_thanks, K_siapa, K_daftar,
    K_populasi, <<"P","o","p","u","l","a","s","i">>, K_ekonomi, K_pendidikan,
    <<"K","e","p","e","n","d","u","d","u","k","a","n">>,
    <<"x","y","z","x","y","z">>, <<"d","a","t","a">>, <<"a","b">>,
    <<"t","e","r","i","m","a">>, <<"k","a","s","i","h">> }

RECURSIVE join(_)
join(words) ==
  IF words = <<>> THEN <<>>
  ELSE IF Len(words) = 1 THEN words[1]
  ELSE words[1] \o <<" ">> \o join(Tail(words))

\* two words with something else than one space between them
SeparatedTexts ==
  { a \o sep \o b : a, b \in {K_ekonomi, K_populasi, <<"a","b">>},
                    sep \in {<<" "," ">>, <<"\n">>, <<"\t">>} }

EngineInputs ==
  { join(words) : words \in UNION { [1..n -> Vocabulary] : n \in 0..MaxWords } }
    \cup ExampleTexts \cup SeparatedTexts

\* what the user types into the input field
TypedTexts == { <<>>, <<" ">>, K_ekonomi }

\* the value of the q parameter of the page address; <<>> when there is none
QueryParams == { <<>>, K_populasi }

(***************************************************************************)
(* State.                                                                  *)
(***************************************************************************)
VARIABLES
  variant,           \* 1: the page of lines 108-419, 2: the page of lines 792-1041
  queryParam,        \* searchParams.get('q')
  mounted,           \* the mount effects have run
  messages, input, isLoading, isTyping, editingMessageId,
  typingTimeoutRef,  \* typingTimeoutRef.current
  intervals,         \* the running window.setInterval timers
  timeouts,          \* the pending setTimeout callbacks
  now,               \* Date.now()
  timers,            \* the handle the next window.setInterval returns
  pending,           \* what the browser runs next before any other event
  submits, newChats, \* accepted queries and New Chat presses so far
  stopped,           \* history: the reveals stopTyping has cleared since the last New Chat
  lastCall,          \* history: the handler that made the last step
  question, questionType, relevantData, responseContent, sources, processed

shellVars ==
  <<variant, queryParam, mounted, messages, input, isLoading, isTyping,
    editingMessageId, typingTimeoutRef, intervals, timeouts, now, timers,
    pending, submits, newChats, stopped, lastCall>>

engineVars ==
  <<question, questionType, relevantData, responseContent, sources, processed>>

vars == <<shellVars, engineVars>>

null == -1

GreetingId == 0

(***************************************************************************)
(* The component's state as one value, so that a handler that calls        *)
(* another is the composition of the two.                                  *)
(***************************************************************************)
Shell ==
  [messages |-> messages, input |-> input, isLoading |-> isLoading,
   isTyping |-> isTyping, editingMessageId |-> editingMessageId,
   typingTimeoutRef |-> typingTimeoutRef, intervals |-> intervals,
   timeouts |-> timeouts, now |-> now, timers |-> timers,
   submits |-> submits, stopped |-> stopped]

Commit(s) ==
  /\ messages' = s.messages
  /\ input' = s.input
  /\ isLoading' = s.isLoading
  /\ isTyping' = s.isTyping
  /\ editingMessageId' = s.editingMessageId
  /\ typingTimeoutRef' = s.typingTimeoutRef
  /\ intervals' = s.intervals
  /\ timeouts' = s.timeouts
  /\ now' = s.now
  /\ timers' = s.timers
  /\ submits' = s.submits
  /\ stopped' = s.stopped

Message(id, content, type) ==
  [id |-> id, content |-> content, type |-> type,
   sources |-> undefined, relatedData |-> undefined]

hasMessage(msgs, id) == \E k \in 1..Len(msgs) : msgs[k].id = id

\* prev.map(msg => msg.id === id ? {...msg, content} : msg)
withContent(msgs, id, content) ==
  [k \in 1..Len(msgs) |->
     IF msgs[k].id = id THEN [msgs[k] EXCEPT !.content = content] ELSE msgs[k]]

\* prev.map(msg => msg.id === id ? {...msg, sources, relatedData} : msg)
withSources(msgs, id, srcs, related) ==
  [k \in 1..Len(msgs) |->
     IF msgs[k].id = id
       THEN [msgs[k] EXCEPT !.sources = srcs, !.relatedData = related]
       ELSE msgs[k]]

\* window.clearInterval(handle)
clearInterval(ivs, handle) == { iv \in ivs : iv.id # handle }

\* the callback a reveal of the first version runs when it ends
noFinish == [attach |-> FALSE, sources |-> undefined, relatedData |-> undefined]

attachOnFinish(srcs, related) ==
  [attach |-> TRUE, sources |-> srcs, relatedData |-> related]

\* the part of a composed string a reveal shows
shown(fullContent) == substring(fullContent, MaxChars)

(***************************************************************************)
(* First version of the page, lines 108-419.                               *)
(***************************************************************************)
simulateTyping1(s, fullContent, messageId, onFinish) ==
  [s EXCEPT
     !.isTyping = TRUE,
     !.intervals = @ \cup {[id |-> s.timers, fullContent |-> fullContent,
                            messageId |-> messageId, i |-> 0,
                            onFinish |-> onFinish]},
     !.typingTimeoutRef = s.timers,
     !.timers = @ + 1]

\* what stopTyping records of the reveal it clears
stoppedBy(s) ==
  { [messageId |-> iv.messageId, fullContent |-> iv.fullContent, ticks |-> iv.i] :
      iv \in { r \in s.intervals : r.id = s.typingTimeoutRef } }

stopTyping1(s) ==
  LET s1 == IF s.typingTimeoutRef # null
              THEN [s EXCEPT
                      !.intervals = clearInterval(@, s.typingTimeoutRef),
                      !.typingTimeoutRef = null,
                      !.isTyping = FALSE,
                      !.stopped = @ \cup stoppedBy(s)]
              ELSE s
      prev == s1.messages
  IN  IF Len(prev) > 0 /\ prev[Len(prev)].type = "assistant"
        THEN [s1 EXCEPT !.messages =
                withContent(prev, prev[Len(prev)].id,
                            prev[Len(prev)].content \o StoppedMarker)]
        ELSE s1

\* the setTimeout callback attaching the sources before the reveal starts
processingTimeout1SourcesFirst(s, t) ==
  LET qType == detectQuestionType(t.currentInput)
      data == findRelevantData(t.currentInput)
      content == generatePersonalizedResponse1(t.currentInput, qType, data)
      s1 == [s EXCEPT !.messages =
               withSources(@, t.responseId, sourcesOf(qType, data), relatedDataOf(data))]
      s2 == simulateTyping1(s1, shown(content), t.responseId, noFinish)
  IN  [s2 EXCEPT !.isLoading = FALSE, !.timeouts = @ \ {t}]

\* the setTimeout callback of handleSubmit
processingTimeout1(s, t) ==
  LET qType == detectQuestionType(t.currentInput)
      data == findRelevantData(t.currentInput)
      content == generatePersonalizedResponse1(t.currentInput, qType, data)
      s1 == simulateTyping1(s, shown(content), t.responseId,
                            attachOnFinish(sourcesOf(qType, data), relatedDataOf(data)))
  IN  [s1 EXCEPT !.isLoading = FALSE, !.timeouts = @ \ {t}]

\* handleSubmit past its early returns: the query is accepted
startQuery1(s, currentInput, seen) ==
  LET responseId == s.now + 1
      s1 == IF seen.editingMessageId # null
              THEN [s EXCEPT
                      !.messages = withContent(@, seen.editingMessageId, currentInput),
                      !.editingMessageId = null]
              ELSE [s EXCEPT
                      !.messages = Append(@, Message(s.now, currentInput, "user"))]
  IN  [s1 EXCEPT
         !.input = <<>>,
         !.isLoading = TRUE,
         !.messages = Append(@, Message(responseId, <<>>, "assistant")),
         !.timeouts = @ \cup {[currentInput |-> currentInput, responseId |-> responseId]},
         !.now = @ + 2,
         !.submits = @ + 1]

\* handleSubmit without the test of isTyping
handleSubmitWhileTyping(s, arg, seen) ==
  LET currentInput == IF arg # <<>> THEN arg ELSE seen.input IN
  IF trim(currentInput) = <<>> \/ seen.isLoading THEN s
  ELSE startQuery1(s, currentInput, seen)

\* seen: the state of the render whose handleSubmit is called
handleSubmit1(s, arg, seen) ==
  LET currentInput == IF arg # <<>> THEN arg ELSE seen.input IN
  IF trim(currentInput) = <<>> \/ seen.isLoading THEN s
  ELSE IF seen.isTyping THEN stopTyping1(s)
  ELSE startQuery1(s, currentInput, seen)

\* one firing of the interval of simulateTyping; the updater handed to
\* setMessages reads i when it runs, which is inside setMessages (before i++)
\* or at the next render (after i++)
intervalTick1(s, iv, deferred) ==
  LET prev == s.messages
      iRead == IF deferred THEN iv.i + 1 ELSE iv.i
      updatedContent == substring(iv.fullContent, iRead + 1)
      finished == Len(updatedContent) >= Len(iv.fullContent)
      revealed == withContent(prev, iv.messageId, updatedContent)
  IN  IF hasMessage(prev, iv.messageId)
        THEN IF finished
               THEN [s EXCEPT
                       !.intervals = clearInterval(@, iv.id),
                       !.isTyping = FALSE,
                       !.messages =
                         IF iv.onFinish.attach
                           THEN withSources(revealed, iv.messageId,
                                            iv.onFinish.sources, iv.onFinish.relatedData)
                           ELSE revealed]
               ELSE [s EXCEPT
                       !.intervals = (@ \ {iv}) \cup {[iv EXCEPT !.i = @ + 1]},
                       !.messages = revealed]
        ELSE [s EXCEPT !.intervals = (@ \ {iv}) \cup {[iv EXCEPT !.i = @ + 1]}]

(***************************************************************************)
(* Second version of the page, lines 792-1041.                             *)
(***************************************************************************)
simulateTyping(s, fullContent, messageId) ==
  LET ivs == IF s.typingTimeoutRef # null
               THEN clearInterval(s.intervals, s.typingTimeoutRef)
               ELSE s.intervals
  IN  [s EXCEPT
         !.intervals = ivs \cup {[id |-> s.timers, fullContent |-> fullContent,
                                  messageId |-> messageId, i |-> 0,
                                  onFinish |-> noFinish]},
         !.typingTimeoutRef = s.timers,
         !.timers = @ + 1]

stopTyping(s) ==
  LET s1 == IF s.typingTimeoutRef # null
              THEN [s EXCEPT
                      !.intervals = clearInterval(@, s.typingTimeoutRef),
                      !.typingTimeoutRef = null,
                      !.stopped = @ \cup stoppedBy(s)]
              ELSE s
  IN  [s1 EXCEPT !.isTyping = FALSE]

handleNewChat(s) ==
  LET s1 == IF s.typingTimeoutRef # null THEN stopTyping(s) ELSE s IN
  [s1 EXCEPT !.messages = <<>>, !.input = <<>>, !.editingMessageId = null]

processingTimeout(s, t) ==
  LET qType == detectQuestionType(t.currentInput)
      data == findRelevantData(t.currentInput)
      content == generatePersonalizedResponse(t.currentInput, qType, data)
      s1 == [s EXCEPT !.messages =
               withSources(@, t.responseId, sourcesOf(qType, data), relatedDataOf(data))]
      s2 == simulateTyping(s1, shown(content), t.responseId)
  IN  [s2 EXCEPT !.isLoading = FALSE, !.timeouts = @ \ {t}]

startQuery(s, currentInput, seen) ==
  LET responseId == s.now + 1
      s1 == IF seen.editingMessageId # null
              THEN [s EXCEPT
                      !.messages = withContent(@, seen.editingMessageId, currentInput),
                      !.editingMessageId = null]
              ELSE [s EXCEPT
                      !.messages = Append(@, Message(s.now, currentInput, "user"))]
  IN  [s1 EXCEPT
         !.input = <<>>,
         !.isLoading = TRUE,
         !.messages = Append(@, Message(responseId, <<>>, "assistant")),
         !.isTyping = TRUE,
         !.timeouts = @ \cup {[currentInput |-> currentInput, responseId |-> responseId]},
         !.now = @ + 2,
         !.submits = @ + 1]

\* handleSubmit without the test of the trimmed text
handleSubmitBlank(s, arg, seen) ==
  LET currentInput == IF arg # <<>> THEN arg ELSE seen.input IN
  IF seen.isLoading THEN s
  ELSE IF seen.isTyping THEN stopTyping(s)
  ELSE startQuery(s, currentInput, seen)

\* handleSubmit without the test of isLoading
handleSubmitWhileLoading(s, arg, seen) ==
  LET currentInput == IF arg # <<>> THEN arg ELSE seen.input IN
  IF trim(currentInput) = <<>> THEN s
  ELSE IF seen.isTyping THEN stopTyping(s)
  ELSE startQuery(s, currentInput, seen)

handleSubmit(s, arg, seen) ==
  LET currentInput == IF arg # <<>> THEN arg ELSE seen.input IN
  IF trim(currentInput) = <<>> \/ seen.isLoading THEN s
  ELSE IF seen.isTyping THEN stopTyping(s)
  ELSE startQuery(s, currentInput, seen)

intervalTick(s, iv, deferred) ==
  LET iRead == IF deferred THEN iv.i + 1 ELSE iv.i
      revealed == withContent(s.messages, iv.messageId,
                              substring(iv.fullContent, iRead + 1))
  IN  IF iv.i + 1 >= Len(iv.fullContent)
        THEN [s EXCEPT
                !.messages = revealed,
                !.intervals = clearInterval(@, iv.id),
                !.isTyping = FALSE]
        ELSE [s EXCEPT
                !.messages = revealed,
                !.intervals = (@ \ {iv}) \cup {[iv EXCEPT !.i = @ + 1]}]

(***************************************************************************)
(* Initial states.                                                         *)
(***************************************************************************)
ShellStart ==
  /\ mounted = FALSE
  /\ messages = <<>>
  /\ input = <<>>
  /\ isLoading = FALSE
  /\ isTyping = FALSE
  /\ editingMessageId = null
  /\ typingTimeoutRef = null
  /\ intervals = {}
  /\ timeouts = {}
  /\ now = 1
  /\ timers = 1
  /\ pending = "none"
  /\ submits = 0
  /\ newChats = 0
  /\ stopped = {}
  /\ lastCall = [fn |-> "other", currentInput |-> <<>>]

EngineIdle ==
  /\ questionType = "none"
  /\ relevantData = <<>>
  /\ responseContent = <<>>
  /\ sources = undefined
  /\ processed = FALSE

Init ==
  /\ variant \in {1, 2}
  /\ queryParam \in (IF variant = 1 THEN QueryParams ELSE {<<>>})
  /\ ShellStart
  /\ question = <<>>
  /\ EngineIdle

(***************************************************************************)
(* Steps of the page.                                                      *)
(***************************************************************************)
\* the effect on [searchParams, messages.length] of the first version runs
\* again after a commit that changed messages.length
afterCommit(s) ==
  IF /\ variant = 1
     /\ Len(s.messages) # Len(messages)
     /\ queryParam # <<>>
     /\ Len(s.messages) <= 1
    THEN "qEffect"
    ELSE "none"

\* lastCall tells a call of handleSubmit, with the text it works on, from
\* every other step
Called(fn, currentInput) ==
  lastCall' = IF fn = "handleSubmit"
                THEN [fn |-> fn, currentInput |-> currentInput]
                ELSE [fn |-> "other", currentInput |-> <<>>]

currentInputOf(arg) == IF arg # <<>> THEN arg ELSE input

\* handleSubmit(arg) called from the current render
Submit(arg) ==
  \E s \in {IF variant = 1 THEN handleSubmit1(Shell, arg, Shell)
                            ELSE handleSubmit(Shell, arg, Shell)} :
    /\ s.submits <= MaxSubmits
    /\ Commit(s)
    /\ pending' = afterCommit(s)
    /\ Called("handleSubmit", currentInputOf(arg))
    /\ UNCHANGED <<variant, queryParam, mounted, newChats, engineVars>>

\* the two mount effects of the first version, both run with the state of
\* the first render; the second version has none that changes state
Mount ==
  /\ ~mounted
  /\ mounted' = TRUE
  /\ LET s0 == Shell
         s1 == IF Len(s0.messages) = 0
                 THEN simulateTyping1(
                        [s0 EXCEPT !.messages = <<Message(GreetingId, <<>>, "assistant")>>],
                        shown(GreetingMessage), GreetingId, noFinish)
                 ELSE s0
         s2 == IF queryParam # <<>> /\ Len(s0.messages) <= 1
                 THEN handleSubmit1(s1, queryParam, s0)
                 ELSE s1
         s == IF variant = 1 THEN s2 ELSE s0
     IN  /\ Commit(s)
         /\ pending' = afterCommit(s)
  /\ Called("mount", queryParam)
  /\ UNCHANGED <<variant, queryParam, newChats, engineVars>>

\* the effect on [searchParams, messages.length] running again
RunQEffect ==
  /\ pending = "qEffect"
  /\ Submit(queryParam)

\* onChange of the input field
SetInput(text) ==
  /\ mounted /\ pending = "none"
  /\ ~isLoading
  /\ text # input
  /\ input' = text
  /\ Called("setInput", text)
  /\ UNCHANGED <<variant, queryParam, mounted, messages, isLoading, isTyping,
                 editingMessageId, typingTimeoutRef, intervals, timeouts, now,
                 timers, pending, submits, newChats, stopped, engineVars>>

\* first version: the form is submitted (Enter, or a click on the button)
FormSubmit ==
  /\ mounted /\ pending = "none"
  /\ variant = 1
  /\ trim(input) # <<>> /\ ~isLoading
  /\ Submit(<<>>)

\* first version: a click on the square inside the button runs stopTyping,
\* and the click then submits the form, which starts a query
StopIconClick ==
  /\ mounted /\ pending = "none"
  /\ variant = 1
  /\ isTyping
  /\ trim(input) # <<>> /\ ~isLoading
  /\ submits < MaxSubmits
  /\ Commit(stopTyping1(Shell))
  /\ pending' = "formSubmit"
  /\ Called("stopTyping", <<>>)
  /\ UNCHANGED <<variant, queryParam, mounted, newChats, engineVars>>

RunFormSubmit ==
  /\ pending = "formSubmit"
  /\ Submit(<<>>)

\* first version: a click on an entry of the chat history
HistoryClick(k) ==
  /\ mounted /\ pending = "none"
  /\ variant = 1
  /\ messages[k].type = "user"
  /\ Submit(messages[k].content)

\* second version: Enter in the text area
KeyDownEnter ==
  /\ mounted /\ pending = "none"
  /\ variant = 2
  /\ ~isLoading
  /\ Submit(<<>>)

\* second version: a click on the send/stop button
ButtonClick ==
  /\ mounted /\ pending = "none"
  /\ variant = 2
  /\ ~((trim(input) = <<>> /\ ~isTyping) \/ isLoading)
  /\ Submit(<<>>)

\* second version: a click on a suggestion of the welcome screen
SuggestionClick(k) ==
  /\ mounted /\ pending = "none"
  /\ variant = 2
  /\ Len(messages) = 0
  /\ Submit(slice(getSuggestions(<<>>), 6)[k])

\* handleEditClick / handleEdit
EditClick(k) ==
  /\ mounted /\ pending = "none"
  /\ messages[k].type = "user"
  /\ variant = 2 => editingMessageId = null
  /\ editingMessageId' = messages[k].id
  /\ input' = messages[k].content
  /\ Called("handleEdit", messages[k].content)
  /\ UNCHANGED <<variant, queryParam, mounted, messages, isLoading, isTyping,
                 typingTimeoutRef, intervals, timeouts, now, timers, pending,
                 submits, newChats, stopped, engineVars>>

\* New Chat: the onClick of lines 289-292, and handleNewChat; in the first
\* version with a q parameter the effect that follows may start a query
NewChat ==
  /\ mounted /\ pending = "none"
  /\ newChats < MaxNewChats
  /\ (variant = 1 /\ queryParam # <<>> /\ Len(messages) # 0)
       => (isLoading \/ isTyping \/ submits < MaxSubmits)
  /\ newChats' = newChats + 1
  /\ LET s == IF variant = 1
                THEN [Shell EXCEPT !.messages = <<>>, !.input = <<>>]
                ELSE handleNewChat(Shell)
     IN  /\ Commit([s EXCEPT !.stopped = {}])
         /\ pending' = afterCommit(s)
  /\ Called("newChat", <<>>)
  /\ UNCHANGED <<variant, queryParam, mounted, engineVars>>

\* the setTimeout callback of handleSubmit fires
ProcessingTimeout(t) ==
  /\ pending = "none"
  /\ \E s \in {IF variant = 1 THEN processingTimeout1(Shell, t)
                              ELSE processingTimeout(Shell, t)} : Commit(s)
  /\ Called("timeout", t.currentInput)
  /\ UNCHANGED <<variant, queryParam, mounted, pending, newChats, engineVars>>

\* an interval fires; an interval whose message is gone is followed for one
\* firing past the length of its string
IntervalTick(iv, deferred) ==
  /\ pending = "none"
  /\ iv.i <= Len(iv.fullContent)
  /\ \E s \in {IF variant = 1 THEN intervalTick1(Shell, iv, deferred)
                              ELSE intervalTick(Shell, iv, deferred)} : Commit(s)
  /\ Called("tick", <<>>)
  /\ UNCHANGED <<variant, queryParam, mounted, pending, newChats, engineVars>>

Next ==
  \/ Mount
  \/ RunQEffect
  \/ \E text \in TypedTexts : SetInput(text)
  \/ FormSubmit
  \/ StopIconClick
  \/ RunFormSubmit
  \/ \E k \in 1..Len(messages) : HistoryClick(k)
  \/ ButtonClick
  \/ KeyDownEnter
  \/ \E k \in 1..Min(MaxSuggestions, 6) : SuggestionClick(k)
  \/ \E k \in 1..Len(messages) : EditClick(k)
  \/ NewChat
  \/ \E t \in timeouts : ProcessingTimeout(t)
  \/ \E iv \in intervals, deferred \in BOOLEAN : IntervalTick(iv, deferred)

Spec == Init /\ [][Next]_vars

(***************************************************************************)
(* The engine alone: the computation of the setTimeout callback on an      *)
(* input text.                                                             *)
(***************************************************************************)
EngineInit ==
  /\ variant \in {1, 2}
  /\ queryParam = <<>>
  /\ ShellStart
  /\ question \in EngineInputs
  /\ EngineIdle

Process ==
  /\ ~processed
  /\ processed' = TRUE
  /\ questionType' = detectQuestionType(question)
  /\ relevantData' = findRelevantData(question)
  /\ responseContent' =
       IF variant = 1
         THEN generatePersonalizedResponse1(question, questionType', relevantData')
         ELSE generatePersonalizedResponse(question, questionType', relevantData')
  /\ sources' = sourcesOf(questionType', relevantData')
  /\ UNCHANGED <<shellVars, question>>

EngineNext == Process

EngineSpec == EngineInit /\ [][EngineNext]_vars

(***************************************************************************)
(* The per-word phase alone: the loop of findRelevantData run on a text.   *)
(***************************************************************************)
PerWord ==
  /\ ~processed
  /\ processed' = TRUE
  /\ relevantData' = perWordPhase(question)
  /\ UNCHANGED <<shellVars, question, questionType, responseContent, sources>>

PerWordNext == PerWord

PerWordSpec == EngineInit /\ [][PerWordNext]_vars

(***************************************************************************)
(* The page with what the browser guarantees: effects run, a timeout that  *)
(* is pending fires, and an interval that is running keeps firing.  Nothing *)
(* makes the user act.                                                     *)
(***************************************************************************)
Fairness ==
  /\ WF_vars(Mount)
  /\ WF_vars(RunQEffect)
  /\ WF_vars(RunFormSubmit)
  /\ WF_vars(\E t \in timeouts : ProcessingTimeout(t))
  /\ WF_vars(\E iv \in intervals, deferred \in BOOLEAN : IntervalTick(iv, deferred))

LiveSpec == Init /\ [][Next]_vars /\ Fairness

(***************************************************************************)
(* Properties.                                                             *)
(***************************************************************************)
idsOf(msgs) == [k \in 1..Len(msgs) |-> msgs[k].id]

\* C1: a call of handleSubmit with non-blank text while isTyping is true and
\* isLoading is false only stops the reveal: no message is appended,
\* isLoading stays false, no processing timeout is scheduled, no reveal is
\* started, and the reveal typingTimeoutRef refers to is cleared.
StopBeforeSubmit ==
  [][(/\ lastCall'.fn = "handleSubmit"
      /\ trim(lastCall'.currentInput) # <<>>
      /\ isTyping /\ ~isLoading)
     => (/\ idsOf(messages') = idsOf(messages)
         /\ isLoading' = FALSE
         /\ timeouts' = timeouts
         /\ timers' = timers
         /\ intervals' \subseteq intervals
         /\ \A iv \in intervals' : iv.id # typingTimeoutRef
         /\ isTyping' = FALSE)]_vars

\* a call of handleSubmit with non-blank text has just stopped a reveal
StopBeforeSubmitWitness ==
  /\ lastCall.fn = "handleSubmit"
  /\ trim(lastCall.currentInput) # <<>>
  /\ ~isLoading /\ ~isTyping
  /\ pending = "none"
  /\ stopped # {}
  /\ messages # <<>>

\* C2: at most one reveal interval is running, and typingTimeoutRef refers
\* to it whenever one is running.
NoOverlappingReveals ==
  /\ Cardinality(intervals) <= 1
  /\ \A iv \in intervals : typingTimeoutRef = iv.id

\* number of places of content where the stop marker starts
markerCount(content) ==
  Cardinality({ k \in 0..(Len(content) - Len(StoppedMarker)) :
                  SubSeq(content, k + 1, k + Len(StoppedMarker)) = StoppedMarker })

\* C3: a message whose reveal was stopped after k ticks holds the first k
\* characters of its composed string, optionally followed by the marker
\* '[Respon dihentikan]', in every later state; the marker occurs at most
\* once in a message, and only in a message whose reveal was stopped.
StoppedRevealKeepsFirstK ==
  /\ \A r \in stopped : \A k \in 1..Len(messages) :
       messages[k].id = r.messageId =>
         \/ messages[k].content = substring(r.fullContent, r.ticks)
         \/ messages[k].content = substring(r.fullContent, r.ticks) \o StoppedMarker
  /\ \A k \in 1..Len(messages) :
       /\ markerCount(messages[k].content) <= 1
       /\ markerCount(messages[k].content) = 1 =>
            \E r \in stopped : r.messageId = messages[k].id

\* C4: findRelevantData returns at most 5 records and no two of them have
\* the same subject_id.
MatchIsShortAndDistinct ==
  processed =>
    /\ Len(relevantData) <= 5
    /\ \A j, k \in 1..Len(relevantData) :
         relevantData[j].subject_id = relevantData[k].subject_id => j = k

\* an input for which the matcher returns several records
MatchIsShortAndDistinctWitness ==
  processed /\ Len(relevantData) >= 2

\* the rules of the classifier in their order: an intent and its keywords
IntentRules ==
  << [intent |-> "greeting", keywords |-> {K_halo, K_hai, K_hello}],
     [intent |-> "thanks", keywords |-> {K_terima_kasih, K_thanks}],
     [intent |-> "identity", keywords |-> {K_siapa, K_who, K_kamu_siapa, K_anda_siapa}],
     [intent |-> "list", keywords |-> {K_list, K_daftar, K_kategori}] >>

\* the rules with a keyword that occurs in the lower-cased text
rulesHit(text) ==
  { r \in 1..Len(IntentRules) :
      \E kw \in IntentRules[r].keywords : includes(toLowerCase(text), kw) }

\* C5: detectQuestionType returns the intent of the first rule, in the order
\* greeting, thanks, identity, list, one of whose keywords occurs in the
\* lower-cased input, and 'information' when none occurs.
FirstRuleWins ==
  processed =>
    questionType =
      IF rulesHit(question) = {}
        THEN "information"
        ELSE IntentRules[CHOOSE r \in rulesHit(question) :
                           \A o \in rulesHit(question) : r <= o].intent

\* an input with an upper-case greeting keyword and a thanks keyword
FirstRuleWinsWitness ==
  /\ processed
  /\ questionType = "greeting"
  /\ includes(question, <<"H","A","L","O">>)
  /\ includes(question, K_thanks)

CannedIntents == {"greeting", "thanks", "identity", "list"}

\* C6: the message produced for a text classified as greeting, thanks,
\* identity or list has an empty or undefined sources list.
CannedIntentHasNoSources ==
  (processed /\ questionType \in CannedIntents) =>
    (~sources.defined \/ sources.value = <<>>)

\* C7: for a text classified as information for which the matcher returns
\* no record, the composed response is the fixed no-data string of the page
\* and sources holds exactly one entry, whose url is
\* https://medankota.bps.go.id/id.
NoMatchGivesPortal ==
  (processed /\ questionType = "information" /\ relevantData = <<>>) =>
    /\ responseContent = (IF variant = 1 THEN NoDataReply1 ELSE NoDataReply)
    /\ sources.defined
    /\ Len(sources.value) = 1
    /\ sources.value[1].url =
         <<"h","t","t","p","s",":","/","/","m","e","d","a","n","k","o","t","a",
           ".","b","p","s",".","g","o",".","i","d","/","i","d">>

\* an information text without a match
NoMatchGivesPortalWitness ==
  processed /\ questionType = "information" /\ relevantData = <<>>
    /\ question = T_xyzxyz

\* C8: for a text classified as information with matches, the composed
\* string contains the title and the description of the first match, it
\* contains the related-data phrase exactly if there is more than one match,
\* and sources has one {title, url} entry per match in the order of the
\* matches; 'data pendidikan' gives the one source titled 'Statistik
\* Pendidikan Kota Medan'.
MatchesAreNamedAndCited ==
  (processed /\ questionType = "information" /\ relevantData # <<>>) =>
    /\ includes(responseContent, relevantData[1].title)
    /\ includes(responseContent, relevantData[1].description)
    /\ includes(responseContent, RelatedPhrase) <=> Len(relevantData) > 1
    /\ sources.defined
    /\ Len(sources.value) = Len(relevantData)
    /\ \A k \in 1..Len(relevantData) :
         sources.value[k] =
           [title |-> relevantData[k].title, url |-> relevantData[k].url]
    /\ question = T_data_pendidikan =>
         /\ Len(sources.value) = 1
         /\ sources.value[1].title =
              <<"S","t","a","t","i","s","t","i","k"," ","P","e","n","d","i","d","i","k","a","n",
                " ","K","o","t","a"," ","M","e","d","a","n">>

\* an information text with more than one match
MatchesAreNamedAndCitedWitness ==
  processed /\ questionType = "information" /\ Len(relevantData) > 1

\* the match lists the composer is tried on
MatchLists == UNION { [1..n -> { mockData[k] : k \in 1..Len(mockData) }] : n \in 0..2 }

\* C9: for the list intent the composed string is a header that states the
\* number N of categories, an empty line, and one line 'k. category' for
\* each k in 1..N in the order of the category list; it is the same for
\* every match list.
ListNamesEveryCategory ==
  (processed /\ questionType = "list") =>
    LET lines == split(responseContent, "\n")
        N == Len(getCategories)
    IN  /\ Len(lines) = N + 3
        /\ includes(lines[1], numberToString(N) \o <<" ","k","a","t","e","g","o","r","i">>)
        /\ lines[2] = <<>>
        /\ \A k \in 1..N : lines[k + 2] = numberToString(k) \o <<".", " ">> \o getCategories[k]
        /\ lines[N + 3] = <<>>
        /\ \A m \in MatchLists :
             responseContent =
               IF variant = 1
                 THEN generatePersonalizedResponse1(question, "list", m)
                 ELSE generatePersonalizedResponse(question, "list", m)

\* a list text for which the matcher returns a record
ListNamesEveryCategoryWitness ==
  processed /\ questionType = "list" /\ relevantData # <<>>

\* the lower-cased text contains a keyword of the matcher or a lower-cased
\* category of the catalog
hasDomainKeyword(text) ==
  \/ \E kw \in {K_populasi, K_ekonomi, K_pendidikan} : includes(toLowerCase(text), kw)
  \/ \E k \in 1..Len(mockData) :
       includes(toLowerCase(text), toLowerCase(mockData[k].category))

\* C10: a text that contains 'populasi' in any letter case gives a result
\* whose first record is pop_001, and a text without a domain keyword and
\* without a category name gives the empty sequence.
KeywordMapping ==
  processed =>
    /\ includes(toLowerCase(question), K_populasi) =>
         /\ relevantData # <<>>
         /\ relevantData[1].subject_id = <<"p","o","p","_","0","0","1">>
    /\ ~hasDomainKeyword(question) => relevantData = <<>>

\* a text with 'Populasi' and another keyword
KeywordMappingWitness ==
  /\ processed
  /\ includes(question, <<"P","o","p","u","l","a","s","i">>)
  /\ Len(relevantData) > 1
  /\ relevantData[1].subject_id = <<"p","o","p","_","0","0","1">>

\* C11: a call of handleSubmit whose text is empty or whitespace-only changes
\* nothing: messages, input, isLoading, isTyping, editingMessageId, the
\* reveal timer and the pending processing timeouts are as before, so the
\* classifier, the matcher and the composer are not run for it.
BlankSubmitIsNoOp ==
  [][(/\ lastCall'.fn = "handleSubmit"
      /\ trim(lastCall'.currentInput) = <<>>)
     => (/\ messages' = messages
         /\ input' = input
         /\ isLoading' = isLoading
         /\ isTyping' = isTyping
         /\ editingMessageId' = editingMessageId
         /\ typingTimeoutRef' = typingTimeoutRef
         /\ intervals' = intervals
         /\ timers' = timers
         /\ timeouts' = timeouts)]_vars

\* handleSubmit has just been called on a whitespace-only text
BlankSubmitIsNoOpWitness ==
  /\ lastCall.fn = "handleSubmit"
  /\ lastCall.currentInput = <<" ">>
  /\ input = <<" ">>
  /\ timeouts = {}

\* C12: while a reveal runs, the message it reveals holds, after the k-th
\* firing of its interval, exactly the first k characters of the composed
\* string, and the interval is cleared by the firing that brings the content
\* to the full string, so a running interval has shown less than the whole.
RevealShowsFirstK ==
  \A iv \in intervals : \A k \in 1..Len(messages) :
    messages[k].id = iv.messageId =>
      /\ messages[k].content = substring(iv.fullContent, iv.i)
      /\ iv.i < Len(iv.fullContent)

\* the places of the records of a list in the catalog
catalogIndex(item) ==
  CHOOSE k \in 1..Len(mockData) : mockData[k].subject_id = item.subject_id

\* C13: when the keyword phase on the whole text yields a record, the result
\* is its first (up to 5) records, in the order of the catalog, whatever the
\* words would yield one by one; when it yields none and the full-text phase
\* yields one, the result is the first (up to 5) full-text records; the
\* per-word phase gives the result only when both yield nothing.
PhasesShortCircuit ==
  processed =>
    LET keywordResults == detectSpecificKeywords(question)
        results == searchBPSData(question)
    IN  /\ Len(keywordResults) > 0 =>
             /\ relevantData = slice(keywordResults, 5)
             /\ \A j, k \in 1..Len(relevantData) :
                  j < k => catalogIndex(relevantData[j]) < catalogIndex(relevantData[k])
        /\ (Len(keywordResults) = 0 /\ Len(results) > 0) =>
             relevantData = slice(results, 5)
        /\ (Len(keywordResults) = 0 /\ Len(results) = 0) =>
             relevantData = perWordPhase(question)

\* a text whose words one by one yield the records in another order than
\* the catalog
PhasesShortCircuitWitness ==
  /\ processed
  /\ question = K_ekonomi \o <<" ">> \o K_populasi
  /\ Len(relevantData) = 2
  /\ perWordPhase(question) # relevantData

\* the places of s where a token starts: a unit that is no white space and
\* follows white space or the start
tokenStarts(s) ==
  { i \in 1..Len(s) : s[i] \notin WhiteSpace /\ (i = 1 \/ s[i - 1] \in WhiteSpace) }

\* the token that starts at place i
tokenAt(s, i) ==
  LET last == CHOOSE e \in i..Len(s) :
                /\ \A j \in i..e : s[j] \notin WhiteSpace
                /\ (e = Len(s) \/ s[e + 1] \in WhiteSpace)
  IN  SubSeq(s, i, last)

\* the whitespace-delimited tokens of s, in their order
tokens(s) ==
  LET starts == tokenStarts(s)
      nth(n) == CHOOSE i \in starts : Cardinality({ j \in starts : j < i }) = n - 1
  IN  [n \in 1..Cardinality(starts) |-> tokenAt(s, nth(n))]

\* what the tokens contribute, one after the other
RECURSIVE contributions(_)
contributions(toks) ==
  IF toks = <<>> THEN <<>>
  ELSE (IF Len(toks[1]) <= 2 THEN <<>>
        ELSE IF Len(detectSpecificKeywords(toks[1])) > 0
          THEN detectSpecificKeywords(toks[1])
        ELSE slice(searchBPSData(toks[1]), 2))
       \o contributions(Tail(toks))

\* the records of a list without those whose subject_id occurred before
firstOccurrences(list) ==
  LET first(k) == \A j \in 1..(k - 1) : list[j].subject_id # list[k].subject_id
      kept == { k \in 1..Len(list) : first(k) }
      nth(n) == CHOOSE k \in kept : Cardinality({ j \in kept : j < k }) = n - 1
  IN  [n \in 1..Cardinality(kept) |-> list[nth(n)]]

running(id) == \E iv \in intervals : iv.id = id

\* C15: whatever the user does, an accepted query is followed by isLoading
\* becoming false, and the reveals that have started end: no interval is
\* left running and isTyping becomes false, also when New Chat empties the
\* message list while it runs; an interval that ends without having been
\* stopped leaves the full composed string in its message.
LoadingAndRevealsEnd ==
  /\ isLoading ~> ~isLoading
  /\ (intervals # {}) ~> (intervals = {})
  /\ isTyping ~> ~isTyping
  /\ [][\A iv \in intervals :
          (/\ ~running(iv.id)'
           /\ stopped' = stopped /\ newChats' = newChats /\ timeouts' = timeouts
           /\ hasMessage(messages, iv.messageId))
          => \E k \in 1..Len(messages') :
               /\ messages'[k].id = iv.messageId
               /\ messages'[k].content = iv.fullContent]_vars

\* the message list an accepted query leaves: the text replaces the content
\* of the message being edited, or is appended as a user message, and one
\* empty assistant message follows
afterAccepted(list, editing, t) ==
  Append(IF editing # null
           THEN withContent(list, editing, t.currentInput)
           ELSE Append(list, Message(t.responseId - 1, t.currentInput, "user")),
         Message(t.responseId, <<>>, "assistant"))

\* C16: at most one processing timeout is outstanding, and only while
\* isLoading is true; a call of handleSubmit while isLoading is true changes
\* nothing; and a query that is accepted finds no timeout outstanding and
\* leaves exactly its own, one new empty assistant message, one new user
\* message when no message is being edited, and when one is, no new user
\* message, the text as the content of the edited message, and
\* editingMessageId null.
OnePendingQuery ==
  /\ [](Cardinality(timeouts) <= 1 /\ (timeouts # {} => isLoading))
  /\ [][(lastCall'.fn = "handleSubmit" /\ isLoading)
          => (/\ messages' = messages
              /\ input' = input
              /\ isLoading' = isLoading
              /\ isTyping' = isTyping
              /\ editingMessageId' = editingMessageId
              /\ typingTimeoutRef' = typingTimeoutRef
              /\ intervals' = intervals
              /\ timeouts' = timeouts)]_vars
  /\ [][submits' # submits
          => (/\ submits' = submits + 1
              /\ timeouts = {}
              /\ isLoading'
              /\ editingMessageId' = null
              /\ \E t \in timeouts' :
                   /\ timeouts' = {t}
                   /\ messages' =
                        afterAccepted(IF mounted THEN messages
                                        ELSE <<Message(GreetingId, <<>>, "assistant")>>,
                                      editingMessageId, t))]_vars

\* a query has just been accepted that edits the only user message
OnePendingQueryWitness ==
  /\ submits = 2
  /\ isLoading
  /\ lastCall.fn = "handleSubmit"
  /\ Cardinality({ k \in 1..Len(messages) : messages[k].type = "user" }) = 1
  /\ \E t \in timeouts, k \in 1..Len(messages) :
       /\ messages[k].type = "user"
       /\ messages[k].content = t.currentInput
       /\ messages[Len(messages)].id = t.responseId
       /\ messages[Len(messages)].content = <<>>
  /\ Cardinality({ k \in 1..Len(messages) : messages[k].type = "assistant" }) >= 2

\* C17: in the first version isTyping is true exactly while a reveal
\* interval is running: simulateTyping sets it with the interval, and it is
\* reset when that interval is cleared, by its last firing or by stopTyping.
TypingIffRevealRunning ==
  variant = 1 => (isTyping <=> intervals # {})

\* the message has sources or related data
hasSources(msg) == msg.sources.defined \/ msg.relatedData.defined

\* C18: in the first version a message gets its sources and its related
\* data only from the last firing of its own reveal, which leaves the full
\* composed string in it, and its content does not change afterwards; a
\* response whose reveal was stopped has none, in every later state.
SourcesOnlyOnFinish ==
  /\ [](variant = 1 =>
          \A r \in stopped : \A k \in 1..Len(messages) :
            messages[k].id = r.messageId => ~hasSources(messages[k]))
  /\ [][variant = 1 =>
          \A k \in 1..Len(messages') :
            hasSources(messages'[k]) =>
              \/ \E j \in 1..Len(messages) :
                   /\ messages[j] = messages'[k]
              \/ \E iv \in intervals :
                   /\ iv.messageId = messages'[k].id
                   /\ iv.onFinish.attach
                   /\ ~running(iv.id)'
                   /\ messages'[k].content = iv.fullContent
                   /\ messages'[k].sources = iv.onFinish.sources
                   /\ messages'[k].relatedData = iv.onFinish.relatedData]_vars

\* one response has been revealed to its end and has its sources, and the
\* reveal of a later one was stopped
SourcesOnlyOnFinishWitness ==
  /\ variant = 1
  /\ \E k \in 1..Len(messages) : hasSources(messages[k])
  /\ \E r \in stopped : \E k \in 1..Len(messages) :
       /\ messages[k].id = r.messageId
       /\ r.messageId # GreetingId
       /\ r.ticks > 0

\* C19: in the second version, while a reveal is in progress (isTyping true,
\* isLoading false), the call handleSubmit() that the send/stop button makes
\* stops the reveal, whatever the input field holds, the empty string
\* included: the interval typingTimeoutRef names is cleared and isTyping
\* becomes false.
ButtonStopsReveal ==
  [][(/\ variant = 2
      /\ lastCall'.fn = "handleSubmit"
      /\ lastCall'.currentInput = input
      /\ isTyping /\ ~isLoading)
     => (/\ isTyping' = FALSE
         /\ \A iv \in intervals' : iv.id # typingTimeoutRef)]_vars

\* C20: for every text findRelevantData gives the first 5 records of
\* detectSpecificKeywords: searchBPSData gives what detectSpecificKeywords
\* gives, and a text without a keyword hit has no word with one, so the
\* full-text phase and the per-word phase add nothing.
OnlyKeywordPhaseContributes ==
  processed =>
    /\ relevantData = slice(detectSpecificKeywords(question), 5)
    /\ searchBPSData(question) = detectSpecificKeywords(question)
    /\ detectSpecificKeywords(question) = <<>> => perWordPhase(question) = <<>>

\* a text of two words longer than 2 characters without a keyword hit
OnlyKeywordPhaseContributesWitness ==
  /\ processed
  /\ question = <<"x","y","z","x","y","z">> \o <<" ">> \o <<"d","a","t","a">>
  /\ detectSpecificKeywords(question) = <<>>
  /\ relevantData = <<>>

====
